---- MODULE Spec2Model ----
(***************************************************************************)
(* MediBridge: the MDT / invitation workflow of the API routes, as a state *)
(* machine over the shared relational store.  Every route handler is a     *)
(* sequence of store calls (each `await prisma...` is one atomic step, a   *)
(* `prisma.$transaction` block is one atomic step); handlers of different  *)
(* requests interleave between their store calls.                          *)
(***************************************************************************)
EXTENDS Integers, Sequences, FiniteSets, TLC

\* ---------------------------------------------------------------- bounds
MaxMDT == 1          \* MDT rows that may be created
MaxInv == 3          \* invitation rows that may be created
MaxReq == 3          \* requests issued in one behaviour
NProc  == 2          \* requests in flight at the same time
MaxMsg == 2          \* message rows that may be created
MaxPoll == 2         \* polling fetches of one chat page in flight together

\* ------------------------------------------------------- the user directory
UserIds  == {"L1", "E1", "E2"}
userType == [u \in UserIds |-> IF u = "L1" THEN "LOCAL" ELSE "EXTERNAL"]
Specs    == {1, 2, 3}
NoSpecialty == 0     \* specialtyId: null
\* user.specialties in the order the store returns them
specialties == [u \in UserIds |->
                  CASE u = "E1" -> <<1, 3>>
                    [] u = "E2" -> <<2, 1>>
                    [] OTHER    -> <<>>]

MDTIds == 1..MaxMDT
InvIds == 1..MaxInv
Procs  == 1..NProc

Statuses == {"PENDING", "ACCEPTED", "DECLINED", "CANCELLED"}

VARIABLES
  mDT,            \* the MDT rows: set of ids that exist
  creatorId,      \* mDT.creatorId, per MDT id
  members,        \* the MDT <-> User membership relation, per MDT id
  mDTSpecialty,   \* MDTSpecialty rows: [mdtId, specialtyId, filled]
  mDTInvitation,  \* MDTInvitation rows, id = position
  req,            \* per request slot: the handler in flight (Idle when none)
  last,           \* the response sent most recently, with the request it answers:
                  \* [op, user, mdt, content, resp]
  okAccepts,      \* invitations whose respond(ACCEPTED) by id was answered 200
  nreq,           \* requests issued so far
  mdtName,        \* mDT.name, per MDT id
  patientProfile, \* PatientProfile rows: [mdtId, caseSummary, medications]
  message,        \* Message rows, id = position: [mdtId, userId, content, createdAt]
  posted,         \* the posts answered 201, in the order they were stored
  listed,         \* the body of the latest 200 response of GET messages
  user,           \* User rows, id = position: [email, userType, referralCode, referredById]
  reg,            \* per request slot: the signup handler in flight
  messages,       \* the chat page's messages state: the ids it displays, in order
  polls,          \* the chat page's polling fetches in flight, per fetch slot
  sendingMessage  \* the chat page's send in flight (idle when sendingMessage is false)

db   == <<mDT, creatorId, members, mDTSpecialty, mDTInvitation>>
mdtData  == <<mdtName, patientProfile>>
page     == <<messages, polls, sendingMessage>>
chat     == <<message, posted, listed, page>>
accounts == <<user, reg>>
vars == <<mDT, creatorId, members, mDTSpecialty, mDTInvitation, req, last, okAccepts, nreq,
          mdtName, patientProfile, message, posted, listed, user, reg,
          messages, polls, sendingMessage>>

NoUser == "none"

\* a string of a request body, as far as trim() and length see it: lead and
\* trail count the whitespace before and after its core, core is the length
\* of what is left between them (str is false for a value that is no string)
NoContent == [str |-> TRUE, lead |-> 0, core |-> 0, trail |-> 0]
Undefined == "undefined"

\* a request: the route (op), the session user, and the parameters and body
Idle == [op |-> "none", user |-> NoUser, inv |-> 0, mdt |-> 0, status |-> "-",
         rcv |-> NoUser, pc |-> "done",
         name |-> Undefined, caseSummary |-> Undefined, content |-> NoContent]

\* a signup request: the body, and the referrer row the handler has read
NoCode == "-"
RegIdle == [email |-> "-", userType |-> "-", referralCode |-> NoCode, referrer |-> 0,
            pc |-> "done"]

\* the User rows behind UserIds: E1 and E2 registered as EXTERNAL, then L1
\* registered as LOCAL with E1's referral code
Directory ==
  <<[email |-> "E1", userType |-> "EXTERNAL", referralCode |-> "c1", referredById |-> 0],
    [email |-> "E2", userType |-> "EXTERNAL", referralCode |-> "c2", referredById |-> 0],
    [email |-> "L1", userType |-> "LOCAL", referralCode |-> NoCode, referredById |-> 1]>>

\* the polling fetches of one chat page that can be in flight together
PollIds == 1..MaxPoll
\* a fetch slot with no fetch in flight
PollIdle == [st |-> "idle", data |-> <<>>]
\* useState(false) of sendingMessage: no send in flight
SendIdle == [st |-> "idle", content |-> NoContent, id |-> 0]
\* useState<Message[]>([]), and no fetch issued
PageClosed ==
  /\ messages = <<>>
  /\ polls = [k \in PollIds |-> PollIdle]
  /\ sendingMessage = SendIdle

Init ==
  /\ mDT = {}
  /\ creatorId = [m \in MDTIds |-> NoUser]
  /\ members = [m \in MDTIds |-> {}]
  /\ mDTSpecialty = {}
  /\ mDTInvitation = <<>>
  /\ req = [p \in Procs |-> Idle]
  /\ last = [op |-> "none", user |-> NoUser, mdt |-> 0, resp |-> "none", content |-> NoContent]
  /\ okAccepts = {}
  /\ nreq = 0
  /\ mdtName = [m \in MDTIds |-> Undefined]
  /\ patientProfile = {}
  /\ message = <<>>
  /\ posted = <<>>
  /\ listed = <<>>
  /\ user = Directory
  /\ reg = [p \in Procs |-> RegIdle]
  /\ PageClosed

\* ------------------------------------------------------------- helpers
SeqToSet(s) == {s[k] : k \in 1..Len(s)}

\* a request slot is free when its handler has returned
Free(p) == req[p] = Idle /\ nreq < MaxReq

\* the handler of slot p returns: the response goes out and the slot is free
Reply(p, r, code) ==
  /\ req' = [req EXCEPT ![p] = Idle]
  /\ last' = [op |-> r.op, user |-> r.user, mdt |-> r.mdt, resp |-> code, content |-> r.content]
  /\ okAccepts' = IF r.op = "respond" /\ r.status = "ACCEPTED" /\ code = "ok"
                  THEN okAccepts \cup {r.inv} ELSE okAccepts

\* the handler of slot p goes on to its next store call
Goto(p, r, pc) ==
  /\ req' = [req EXCEPT ![p] = [r EXCEPT !.pc = pc]]
  /\ UNCHANGED <<last, okAccepts>>

Exists(i) == i \in 1..Len(mDTInvitation)

\* ids are generated by the store: a request names a row that exists, or
\* (NoInv, NoMDT) an id that names no row and never will
NoInv == 0
NoMDT == 0
InvTargets == DOMAIN mDTInvitation \cup {NoInv}

\* invitation rows a handler in flight is still going to insert
PendingInserts == Cardinality({p \in Procs : req[p].op = "invite" /\ req[p].pc = "create"})

SetStatus(invs, i, s) == [invs EXCEPT ![i].status = s]

\* ------------------------------------------------------ POST /api/mdts
\* the role gate of both POST handlers: user.userType !== 'LOCAL' -> 403
IsLocalAnyone(u) == TRUE
IsLocal(u) == userType[u] = "LOCAL"

\* member ids and required-specialty arrays a create request may carry
UnknownId == "U9"
DoctorChoices   == {{}, {"E2"}, {UnknownId}}
RequiredChoices == {<<>>, <<1>>, <<1, 2, 3>>, <<1, 1>>}

\* tx.user.findMany({ userType: 'EXTERNAL', specialties: { some: { id: { in } } } })
ExternalDoctors(required) ==
  {u \in UserIds : userType[u] = "EXTERNAL" /\ SeqToSet(specialties[u]) \cap required # {}}

\* doctor.specialties.find(s => requiredSpecialties.includes(s.id))?.id || null
MatchingSpecialtyFirst(doctor, required) ==
  IF specialties[doctor] = <<>> THEN NoSpecialty ELSE specialties[doctor][1]
MatchingSpecialty(doctor, required) ==
  LET s == specialties[doctor]
      hits == {k \in 1..Len(s) : s[k] \in required}
  IN IF hits = {} THEN NoSpecialty
     ELSE s[CHOOSE k \in hits : \A j \in hits : k <= j]

\* the rows inserted by Promise.all(externalDoctors.map(... create ...))
RECURSIVE NewInvitations(_, _, _, _)
NewInvitations(doctors, m, sender, required) ==
  IF doctors = {} THEN <<>>
  ELSE LET d == CHOOSE x \in doctors : TRUE
       IN <<[mdtId |-> m, senderId |-> sender, receiverId |-> d,
             specialtyId |-> MatchingSpecialty(d, required), status |-> "PENDING"]>>
          \o NewInvitations(doctors \ {d}, m, sender, required)

\* the transaction throws (and rolls back) on an unknown member id or on a
\* second row for the same (mdtId, specialtyId)
CreateFails(localDoctors, requiredSpecialties) ==
  \/ ~(localDoctors \subseteq UserIds)
  \/ Cardinality(SeqToSet(requiredSpecialties)) # Len(requiredSpecialties)

\* the name and the patient profile of a create request's body
NewName == "A"
NewProfile(m) == [mdtId |-> m, caseSummary |-> "s0", medications |-> <<"med">>]

\* the callback of prisma.$transaction throws: the rows written through tx
\* (the MDT row is the first of them) are rolled back, the catch answers 500
RollbackKeepsMDT(p, r, m) ==
  /\ m <= MaxMDT
  /\ mDT' = mDT \cup {m}
  /\ Reply(p, r, "internal")
  /\ UNCHANGED <<creatorId, members, mDTSpecialty, mDTInvitation, mdtData>>
Rollback(p, r, m) ==
  /\ Reply(p, r, "internal")
  /\ UNCHANGED <<db, mdtData>>

CreateMDT(p, u, localDoctors, requiredSpecialties) ==
  /\ Free(p)
  /\ nreq' = nreq + 1
  /\ UNCHANGED <<chat, accounts>>
  /\ LET r == [Idle EXCEPT !.op = "createMDT", !.user = u]
         m == Cardinality(mDT) + 1
         R == SeqToSet(requiredSpecialties)
     IN IF ~IsLocal(u)
        THEN Reply(p, r, "forbidden") /\ UNCHANGED <<db, mdtData>>
        ELSE IF CreateFails(localDoctors, requiredSpecialties)
        THEN Rollback(p, r, m)
        ELSE /\ m <= MaxMDT
             /\ Len(mDTInvitation) + PendingInserts + Cardinality(ExternalDoctors(R)) <= MaxInv
             /\ mDT' = mDT \cup {m}
             /\ creatorId' = [creatorId EXCEPT ![m] = u]
             /\ mdtName' = [mdtName EXCEPT ![m] = NewName]
             /\ patientProfile' = patientProfile \cup {NewProfile(m)}
             /\ members' = [members EXCEPT ![m] = {u} \cup localDoctors]
             /\ mDTSpecialty' = mDTSpecialty \cup
                   {[mdtId |-> m, specialtyId |-> s, filled |-> FALSE] : s \in R}
             /\ mDTInvitation' = mDTInvitation \o NewInvitations(ExternalDoctors(R), m, u, R)
             /\ Reply(p, [r EXCEPT !.mdt = m], "ok")

\* ------------------------------------- PATCH /api/mdt/invitations/[id]
\* invitation.mdt.requiredSpecialties.find(rs => rs.specialtyId === invitation.specialtyId && !rs.filled)
RequiredSpecialty(inv) ==
  {rs \in mDTSpecialty : /\ rs.mdtId = inv.mdtId
                         /\ rs.specialtyId = inv.specialtyId
                         /\ ~rs.filled}

RespondRead(p, u, i, status) ==
  /\ UNCHANGED <<mdtData, chat, accounts>>
  /\ Free(p)
  /\ i \in InvTargets
  /\ nreq' = nreq + 1
  /\ UNCHANGED db
  /\ LET r == [Idle EXCEPT !.op = "respond", !.user = u, !.inv = i, !.status = status]
     IN IF ~Exists(i) THEN Reply(p, r, "notFound")
        ELSE IF mDTInvitation[i].receiverId # u THEN Reply(p, r, "forbidden")
        ELSE IF mDTInvitation[i].status # "PENDING" THEN Reply(p, r, "alreadyResponded")
        ELSE IF status = "ACCEPTED" /\ RequiredSpecialty(mDTInvitation[i]) = {}
             THEN Reply(p, r, "alreadyFilled")
        ELSE Goto(p, r, "tx")

\* the prisma.$transaction block
RespondTx(p) ==
  /\ UNCHANGED <<mdtData, chat, accounts>>
  /\ req[p].op = "respond" /\ req[p].pc = "tx"
  /\ LET i == req[p].inv
         inv == mDTInvitation[i]
     IN IF req[p].status = "ACCEPTED"
        THEN /\ mDTInvitation' =
                  [k \in DOMAIN mDTInvitation |->
                     IF k = i THEN [inv EXCEPT !.status = "ACCEPTED"]
                     ELSE IF /\ mDTInvitation[k].mdtId = inv.mdtId
                             /\ mDTInvitation[k].specialtyId = inv.specialtyId
                             /\ mDTInvitation[k].status = "PENDING"
                          THEN [mDTInvitation[k] EXCEPT !.status = "CANCELLED"]
                          ELSE mDTInvitation[k]]
             /\ members' = [members EXCEPT ![inv.mdtId] = @ \cup {req[p].user}]
             /\ mDTSpecialty' =
                  {IF rs.mdtId = inv.mdtId /\ rs.specialtyId = inv.specialtyId
                   THEN [rs EXCEPT !.filled = TRUE] ELSE rs : rs \in mDTSpecialty}
        ELSE /\ mDTInvitation' = SetStatus(mDTInvitation, i, req[p].status)
             /\ UNCHANGED <<members, mDTSpecialty>>
  /\ Reply(p, req[p], "ok")
  /\ UNCHANGED <<mDT, creatorId, nreq>>

\* ------------------------------------------ PATCH /api/mdt/invitations
\* prisma.mDTInvitation.update({ where: { id, receiverId: user.id }, data: { status } })
\* throws when no row matches; the catch block answers 500
PatchUpdate(p, u, i, status) ==
  /\ UNCHANGED <<mdtData, chat, accounts>>
  /\ Free(p)
  /\ i \in InvTargets
  /\ nreq' = nreq + 1
  /\ UNCHANGED <<mDT, creatorId, members, mDTSpecialty>>
  /\ LET r == [Idle EXCEPT !.op = "patch", !.user = u, !.inv = i, !.status = status]
     IN IF Exists(i) /\ mDTInvitation[i].receiverId = u
        THEN /\ mDTInvitation' = SetStatus(mDTInvitation, i, status)
             /\ IF status = "ACCEPTED"
                THEN Goto(p, r, "connect")
                ELSE Reply(p, r, "ok")
        ELSE Reply(p, r, "internal") /\ UNCHANGED mDTInvitation

\* if (status === 'ACCEPTED') prisma.mDT.update({ members: { connect } })
PatchConnect(p) ==
  /\ UNCHANGED <<mdtData, chat, accounts>>
  /\ req[p].op = "patch" /\ req[p].pc = "connect"
  /\ members' = [members EXCEPT ![mDTInvitation[req[p].inv].mdtId] = @ \cup {req[p].user}]
  /\ Reply(p, req[p], "ok")
  /\ UNCHANGED <<mDT, creatorId, mDTSpecialty, mDTInvitation, nreq>>

\* ------------------------------------ DELETE /api/mdt/invitations/[id]
CancelRead(p, u, i) ==
  /\ UNCHANGED <<mdtData, chat, accounts>>
  /\ Free(p)
  /\ i \in InvTargets
  /\ nreq' = nreq + 1
  /\ UNCHANGED db
  /\ LET r == [Idle EXCEPT !.op = "cancel", !.user = u, !.inv = i]
     IN IF ~Exists(i) THEN Reply(p, r, "notFound")
        ELSE IF mDTInvitation[i].senderId # u THEN Reply(p, r, "forbidden")
        ELSE IF mDTInvitation[i].status # "PENDING" THEN Reply(p, r, "notPending")
        ELSE Goto(p, r, "write")

CancelWrite(p) ==
  /\ UNCHANGED <<mdtData, chat, accounts>>
  /\ req[p].op = "cancel" /\ req[p].pc = "write"
  /\ mDTInvitation' = SetStatus(mDTInvitation, req[p].inv, "CANCELLED")
  /\ Reply(p, req[p], "ok")
  /\ UNCHANGED <<mDT, creatorId, members, mDTSpecialty, nreq>>

\* ------------------------------------------- POST /api/mdt/invitations
Emails == UserIds \cup {UnknownId}

\* prisma.mDTInvitation.findFirst({ where: { mdtId, receiverId, status: 'PENDING' } })
ExistingInvitation(m, rcv) ==
  {k \in DOMAIN mDTInvitation : /\ mDTInvitation[k].mdtId = m
                                /\ mDTInvitation[k].receiverId = rcv
                                /\ mDTInvitation[k].status = "PENDING"}

InviteCheck(p, u, m, rcv) ==
  /\ UNCHANGED <<mdtData, chat, accounts>>
  /\ Free(p)
  /\ nreq' = nreq + 1
  /\ UNCHANGED db
  /\ m \in mDT \cup {NoMDT}
  /\ LET r == [Idle EXCEPT !.op = "invite", !.user = u, !.mdt = m, !.rcv = rcv]
     IN IF ~IsLocal(u) THEN Reply(p, r, "forbidden")
        ELSE IF rcv \notin UserIds THEN Reply(p, r, "notFound")
        ELSE IF ExistingInvitation(m, rcv) # {} THEN Reply(p, r, "alreadyExists")
        ELSE /\ Len(mDTInvitation) + PendingInserts < MaxInv
             /\ Goto(p, r, "create")

\* prisma.mDTInvitation.create: the foreign key on mdtId rejects an unknown MDT
InviteCreate(p) ==
  /\ UNCHANGED <<mdtData, chat, accounts>>
  /\ req[p].op = "invite" /\ req[p].pc = "create"
  /\ IF req[p].mdt \in mDT
     THEN /\ mDTInvitation' = Append(mDTInvitation,
                [mdtId |-> req[p].mdt, senderId |-> req[p].user, receiverId |-> req[p].rcv,
                 specialtyId |-> NoSpecialty, status |-> "PENDING"])
          /\ Reply(p, req[p], "ok")
     ELSE /\ UNCHANGED mDTInvitation
          /\ Reply(p, req[p], "internal")
  /\ UNCHANGED <<mDT, creatorId, members, mDTSpecialty, nreq>>

\* ---------------------------------------------------------------- Next
Next ==
  \/ \E p \in Procs, u \in UserIds, d \in DoctorChoices, rq \in RequiredChoices :
        CreateMDT(p, u, d, rq)
  \/ \E p \in Procs, u \in UserIds, i \in InvIds \cup {NoInv}, s \in {"ACCEPTED", "DECLINED"} :
        RespondRead(p, u, i, s)
  \/ \E p \in Procs : RespondTx(p)
  \/ \E p \in Procs, u \in UserIds, i \in InvIds \cup {NoInv}, s \in Statuses : PatchUpdate(p, u, i, s)
  \/ \E p \in Procs : PatchConnect(p)
  \/ \E p \in Procs, u \in UserIds, i \in InvIds \cup {NoInv} : CancelRead(p, u, i)
  \/ \E p \in Procs : CancelWrite(p)
  \/ \E p \in Procs, u \in UserIds, m \in MDTIds \cup {NoMDT}, e \in Emails : InviteCheck(p, u, m, e)
  \/ \E p \in Procs : InviteCreate(p)

Spec == Init /\ [][Next]_vars

\* ------------------------------------------------- GET /api/mdts/[id]
\* prisma.mDT.findFirst({ where: { id, members: { some: { id: user.id } } } })
\* and the response that follows it, over the MDT rows ms with members mem
GetMDTResponseTwoChecks(ms, mem, m, u) ==
  IF m \notin ms THEN "notFound" ELSE IF u \notin mem[m] THEN "forbidden" ELSE "ok"
GetMDTResponse(ms, mem, m, u) ==
  IF m \in ms /\ u \in mem[m] THEN "ok" ELSE "notFound"

GetMDT(p, u, m) ==
  /\ Free(p)
  /\ m \in mDT \cup {NoMDT}
  /\ nreq' = nreq + 1
  /\ Reply(p, [Idle EXCEPT !.op = "getMDT", !.user = u, !.mdt = m],
           GetMDTResponse(mDT, members, m, u))
  /\ UNCHANGED <<db, mdtData, chat, accounts>>

\* ------------------------------------------------- PUT /api/mdts/[id]
\* the bodies of an update request; a field that is undefined is left as it is
Bodies == {[name |-> "B", caseSummary |-> "s1"], [name |-> Undefined, caseSummary |-> "s2"]}

\* prisma.mDT.findFirst({ where: { id, creatorId: user.id } })
IsCreatorOrMember(m, u) == m \in mDT /\ u \in members[m]
IsCreator(m, u) == m \in mDT /\ creatorId[m] = u

UpdateRead(p, u, m, body) ==
  /\ Free(p)
  /\ m \in mDT \cup {NoMDT}
  /\ nreq' = nreq + 1
  /\ UNCHANGED <<db, mdtData, chat, accounts>>
  /\ LET r == [Idle EXCEPT !.op = "updateMDT", !.user = u, !.mdt = m,
                           !.name = body.name, !.caseSummary = body.caseSummary]
     IN IF ~IsCreator(m, u) THEN Reply(p, r, "notFound")
        ELSE Goto(p, r, "write")

\* prisma.mDT.update({ where: { id }, data: { name, patientProfile: { update } } })
UpdateWrite(p) ==
  /\ req[p].op = "updateMDT" /\ req[p].pc = "write"
  /\ mdtName' = IF req[p].name = Undefined THEN mdtName
                ELSE [mdtName EXCEPT ![req[p].mdt] = req[p].name]
  /\ patientProfile' =
       {IF pp.mdtId = req[p].mdt /\ req[p].caseSummary # Undefined
        THEN [pp EXCEPT !.caseSummary = req[p].caseSummary] ELSE pp : pp \in patientProfile}
  /\ Reply(p, req[p], "ok")
  /\ UNCHANGED <<db, chat, accounts, nreq>>

\* ------------------------------------- GET /api/mdt/invitations/[id]
\* user.firstName: the signup schema takes no name shorter than two characters
firstName == [u \in UserIds |-> "Dr"]
\* the truth value a string has as an operand of ||
Truthy(str) == str # ""

\* if (members.some(member => member.id === user.id) || invitation.sender.firstName)
\* else findFirst({ where: { id, receiverId: user.id } }) -> 403 when none
GetInvitation(p, u, i) ==
  /\ Free(p)
  /\ i \in InvTargets
  /\ nreq' = nreq + 1
  /\ UNCHANGED <<db, mdtData, chat, accounts>>
  /\ LET r == [Idle EXCEPT !.op = "getInvitation", !.user = u, !.inv = i]
     IN IF ~Exists(i) THEN Reply(p, r, "notFound")
        ELSE IF \/ u \in members[mDTInvitation[i].mdtId]
                \/ Truthy(firstName[mDTInvitation[i].senderId])
             THEN Reply(p, r, "ok")
        ELSE IF mDTInvitation[i].receiverId = u THEN Reply(p, r, "ok")
        ELSE Reply(p, r, "forbidden")

\* the routes that read and edit an MDT, next to those that create it and
\* add members to it
NextAccess ==
  \/ \E p \in Procs, u \in UserIds, d \in DoctorChoices, rq \in RequiredChoices :
        CreateMDT(p, u, d, rq)
  \/ \E p \in Procs, u \in UserIds, i \in InvIds \cup {NoInv}, s \in {"ACCEPTED", "DECLINED"} :
        RespondRead(p, u, i, s)
  \/ \E p \in Procs : RespondTx(p)
  \/ \E p \in Procs, u \in UserIds, m \in MDTIds \cup {NoMDT} : GetMDT(p, u, m)
  \/ \E p \in Procs, u \in UserIds, m \in MDTIds \cup {NoMDT}, b \in Bodies : UpdateRead(p, u, m, b)
  \/ \E p \in Procs : UpdateWrite(p)
  \/ \E p \in Procs, u \in UserIds, i \in InvIds \cup {NoInv} : GetInvitation(p, u, i)

SpecAccess == Init /\ [][NextAccess]_vars

\* ------------------------------------------ /api/mdts/[id]/messages
\* content.trim().length > 2000
MaxMessageLength == 2000

\* String.prototype.trim and .length
Trim(c) == [c EXCEPT !.lead = 0, !.trail = 0]
Length(c) == c.lead + c.core + c.trail

\* the content a post may carry: a number, "", " ", " x ", a string of 2000
\* characters wrapped in whitespace, and a string of 2001 characters
ContentChoices ==
  {[str |-> FALSE, lead |-> 0, core |-> 0, trail |-> 0],
   [str |-> TRUE, lead |-> 0, core |-> 0, trail |-> 0],
   [str |-> TRUE, lead |-> 1, core |-> 0, trail |-> 0],
   [str |-> TRUE, lead |-> 1, core |-> 1, trail |-> 1],
   [str |-> TRUE, lead |-> 1, core |-> MaxMessageLength, trail |-> 1],
   [str |-> TRUE, lead |-> 0, core |-> MaxMessageLength + 1, trail |-> 0]}

\* !content || typeof content !== 'string' || content.trim().length === 0
IsEmpty(c) == ~c.str \/ Length(c) = 0 \/ Length(Trim(c)) = 0
\* content.trim().length > 2000
TooLongAtLimit(c) == Length(Trim(c)) >= MaxMessageLength
TooLong(c) == Length(Trim(c)) > MaxMessageLength

\* mdt.members.some(member => member.id === user.id)
IsMemberOfAny(m, u) == TRUE
IsMember(m, u) == u \in members[m]

\* message rows a handler in flight is still going to insert
PendingPosts == Cardinality({p \in Procs : req[p].op = "postMessage" /\ req[p].pc = "create"})

\* POST: validation, then prisma.mDT.findUnique({ include: members })
PostCheck(p, u, m, c) ==
  /\ Free(p)
  /\ m \in mDT \cup {NoMDT}
  /\ nreq' = nreq + 1
  /\ UNCHANGED <<db, mdtData, chat, accounts>>
  /\ LET r == [Idle EXCEPT !.op = "postMessage", !.user = u, !.mdt = m, !.content = c]
     IN IF IsEmpty(c) \/ TooLong(c) THEN Reply(p, r, "invalid")
        ELSE IF m \notin mDT THEN Reply(p, r, "notFound")
        ELSE IF ~IsMember(m, u) THEN Reply(p, r, "forbidden")
        ELSE /\ Len(message) + PendingPosts < MaxMsg
             /\ Goto(p, r, "create")

\* prisma.message.create({ data: { content: content.trim(), userId, mdtId } });
\* createdAt is the store's clock at the insert
PostCreate(p) ==
  /\ req[p].op = "postMessage" /\ req[p].pc = "create"
  /\ message' = Append(message, [mdtId |-> req[p].mdt, userId |-> req[p].user,
                                 content |-> Trim(req[p].content),
                                 createdAt |-> Len(message) + 1])
  /\ posted' = Append(posted, [mdtId |-> req[p].mdt, userId |-> req[p].user,
                               content |-> Trim(req[p].content)])
  /\ Reply(p, req[p], "ok")
  /\ UNCHANGED <<db, mdtData, listed, page, accounts, nreq>>

\* orderBy: { createdAt: 'asc' }
Descending(a, b) == a.createdAt >= b.createdAt
Ascending(a, b) == a.createdAt <= b.createdAt

RECURSIVE OrderBy(_)
OrderBy(rows) ==
  IF rows = {} THEN <<>>
  ELSE LET first == CHOOSE r \in rows : \A q \in rows : Ascending(r, q)
       IN <<first>> \o OrderBy(rows \ {first})

\* prisma.message.findMany({ where: { mdtId }, orderBy: { createdAt: 'asc' } })
FindMessages(msgs, m) == OrderBy({msgs[k] : k \in {j \in DOMAIN msgs : msgs[j].mdtId = m}})

\* GET: prisma.mDT.findUnique({ include: members }), then the member test
ListRead(p, u, m) ==
  /\ Free(p)
  /\ m \in mDT \cup {NoMDT}
  /\ nreq' = nreq + 1
  /\ UNCHANGED <<db, mdtData, chat, accounts>>
  /\ LET r == [Idle EXCEPT !.op = "listMessages", !.user = u, !.mdt = m]
     IN IF m \notin mDT THEN Reply(p, r, "notFound")
        ELSE IF ~IsMember(m, u) THEN Reply(p, r, "forbidden")
        ELSE Goto(p, r, "find")

ListFind(p) ==
  /\ req[p].op = "listMessages" /\ req[p].pc = "find"
  /\ listed' = FindMessages(message, req[p].mdt)
  /\ Reply(p, req[p], "ok")
  /\ UNCHANGED <<db, mdtData, message, posted, page, accounts, nreq>>

\* the store after L1 has created MDT 1 with local doctor E2 and required
\* specialty 1 (E1 and E2 hold PENDING invitations); requests are counted
\* from here
InitChat ==
  /\ mDT = {1}
  /\ creatorId = [m \in MDTIds |-> IF m = 1 THEN "L1" ELSE NoUser]
  /\ members = [m \in MDTIds |-> IF m = 1 THEN {"L1", "E2"} ELSE {}]
  /\ mDTSpecialty = {[mdtId |-> 1, specialtyId |-> 1, filled |-> FALSE]}
  /\ mDTInvitation = NewInvitations(ExternalDoctors({1}), 1, "L1", {1})
  /\ mdtName = [m \in MDTIds |-> IF m = 1 THEN NewName ELSE Undefined]
  /\ patientProfile = {NewProfile(1)}
  /\ req = [p \in Procs |-> Idle]
  /\ last = [op |-> "createMDT", user |-> "L1", mdt |-> 1, resp |-> "ok", content |-> NoContent]
  /\ okAccepts = {}
  /\ nreq = 0
  /\ message = <<>>
  /\ posted = <<>>
  /\ listed = <<>>
  /\ user = Directory
  /\ reg = [p \in Procs |-> RegIdle]
  /\ PageClosed

\* the message routes, next to the route by which a user joins an MDT
NextChat ==
  \/ \E p \in Procs, u \in UserIds, i \in InvIds \cup {NoInv}, s \in {"ACCEPTED", "DECLINED"} :
        RespondRead(p, u, i, s)
  \/ \E p \in Procs : RespondTx(p)
  \/ \E p \in Procs, u \in UserIds, m \in MDTIds \cup {NoMDT}, c \in ContentChoices :
        PostCheck(p, u, m, c)
  \/ \E p \in Procs : PostCreate(p)
  \/ \E p \in Procs, u \in UserIds, m \in MDTIds \cup {NoMDT} : ListRead(p, u, m)
  \/ \E p \in Procs : ListFind(p)

SpecChat == InitChat /\ [][NextChat]_vars

\* ------------------------------------------------ POST /api/auth/signup
\* the emails, and the referral codes (stored or typed in), of signup requests
SignupEmails == {"a@x", "b@x"}
Codes == {"c1", "c2"}
UnknownCode == "zz"
CodeChoices == Codes \cup {UnknownCode, ""}

\* the bodies of signup requests: a LOCAL body carries a referral code
SignupBodies ==
  [email : SignupEmails, userType : {"LOCAL"}, referralCode : CodeChoices]
    \cup [email : SignupEmails, userType : {"EXTERNAL"}, referralCode : {NoCode}]

NoRow == 0
\* prisma.user.findUnique({ where: { email } }): the id of the row, if any
FindByEmail(email) ==
  IF \E k \in DOMAIN user : user[k].email = email
  THEN CHOOSE k \in DOMAIN user : user[k].email = email ELSE NoRow
\* prisma.user.findUnique({ where: { referralCode } })
FindByReferralCode(code) ==
  IF \E k \in DOMAIN user : user[k].referralCode = code
  THEN CHOOSE k \in DOMAIN user : user[k].referralCode = code ELSE NoRow

\* if (!referrer || referrer.userType !== 'EXTERNAL') -> 400
ValidReferrerUnchecked(ref) == TRUE
ValidReferrer(ref) == ref # NoRow /\ user[ref].userType = "EXTERNAL"

RegFree(p) == reg[p] = RegIdle /\ nreq < MaxReq

\* the signup handler of slot p returns
RegReply(p, r, code) ==
  /\ reg' = [reg EXCEPT ![p] = RegIdle]
  /\ last' = [op |-> "signup", user |-> r.email, mdt |-> 0, resp |-> code, content |-> NoContent]
\* the signup handler of slot p goes on to its next store call
RegGoto(p, r, pc) == reg' = [reg EXCEPT ![p] = [r EXCEPT !.pc = pc]] /\ UNCHANGED last

\* schema.parse(body), then findUnique by email -> 400 'Email already registered'
SignupCheck(p, body) ==
  /\ RegFree(p)
  /\ nreq' = nreq + 1
  /\ UNCHANGED <<db, mdtData, chat, req, okAccepts, user>>
  /\ LET r == [RegIdle EXCEPT !.email = body.email, !.userType = body.userType,
                              !.referralCode = body.referralCode]
     IN IF body.userType = "LOCAL" /\ body.referralCode = "" THEN RegReply(p, r, "invalid")
        ELSE IF FindByEmail(body.email) # NoRow THEN RegReply(p, r, "emailTaken")
        ELSE RegGoto(p, r, IF body.userType = "LOCAL" THEN "referrer" ELSE "generate")

\* LOCAL: findUnique by referralCode -> 400 'Invalid referral code', or
\* userData.referredBy = { connect: { id: referrer.id } }
SignupReferrer(p) ==
  /\ reg[p].pc = "referrer"
  /\ UNCHANGED <<db, mdtData, chat, req, okAccepts, user, nreq>>
  /\ LET ref == FindByReferralCode(reg[p].referralCode)
     IN IF ~ValidReferrer(ref) THEN RegReply(p, reg[p], "invalidReferral")
        ELSE RegGoto(p, [reg[p] EXCEPT !.referrer = ref], "create")

\* EXTERNAL: one round of the loop of generateUniqueReferralCode: a random
\* code, findUnique by it, return it when no row holds it
SignupGenerate(p, code) ==
  /\ reg[p].pc = "generate"
  /\ UNCHANGED <<db, mdtData, chat, req, okAccepts, user, nreq>>
  /\ IF FindByReferralCode(code) # NoRow THEN UNCHANGED <<reg, last>>
     ELSE RegGoto(p, [reg[p] EXCEPT !.referralCode = code], "create")

\* userData.referralCode: set in the EXTERNAL branch only (the code a LOCAL
\* body carries is used for the referrer lookup and not stored)
StoredCodeAsTyped(r) == r.referralCode
StoredCode(r) == IF r.userType = "EXTERNAL" THEN r.referralCode ELSE NoCode

\* prisma.user.create: email and referralCode are unique columns; a
\* violation throws, and the catch answers 500 'Failed to create account'
SignupCreate(p) ==
  /\ reg[p].pc = "create"
  /\ UNCHANGED <<db, mdtData, chat, req, okAccepts, nreq>>
  /\ IF \/ FindByEmail(reg[p].email) # NoRow
        \/ (reg[p].userType = "EXTERNAL" /\ FindByReferralCode(reg[p].referralCode) # NoRow)
     THEN UNCHANGED user /\ RegReply(p, reg[p], "internal")
     ELSE /\ user' = Append(user,
                 [email |-> reg[p].email, userType |-> reg[p].userType,
                  referralCode |-> StoredCode(reg[p]),
                  referredById |-> reg[p].referrer])
          /\ RegReply(p, reg[p], "ok")

\* GET /api/auth/validate-referral?code=
ValidateReferral(p, code) ==
  /\ RegFree(p)
  /\ nreq' = nreq + 1
  /\ UNCHANGED <<db, mdtData, chat, req, okAccepts, user, reg>>
  /\ last' = [op |-> "validateReferral", user |-> NoUser, mdt |-> 0, content |-> NoContent,
              resp |-> IF code = "" THEN "invalid"
                       ELSE IF FindByReferralCode(code) = NoRow THEN "notFound"
                       ELSE IF user[FindByReferralCode(code)].userType # "EXTERNAL"
                            THEN "invalidReferral"
                       ELSE "ok"]

\* registration starts from an empty User table
InitSignup ==
  /\ mDT = {}
  /\ creatorId = [m \in MDTIds |-> NoUser]
  /\ members = [m \in MDTIds |-> {}]
  /\ mDTSpecialty = {}
  /\ mDTInvitation = <<>>
  /\ req = [p \in Procs |-> Idle]
  /\ last = [op |-> "none", user |-> NoUser, mdt |-> 0, resp |-> "none", content |-> NoContent]
  /\ okAccepts = {}
  /\ nreq = 0
  /\ mdtName = [m \in MDTIds |-> Undefined]
  /\ patientProfile = {}
  /\ message = <<>>
  /\ posted = <<>>
  /\ listed = <<>>
  /\ user = <<>>
  /\ reg = [p \in Procs |-> RegIdle]
  /\ PageClosed

NextSignup ==
  \/ \E p \in Procs, body \in SignupBodies : SignupCheck(p, body)
  \/ \E p \in Procs : SignupReferrer(p)
  \/ \E p \in Procs, code \in Codes : SignupGenerate(p, code)
  \/ \E p \in Procs : SignupCreate(p)
  \/ \E p \in Procs, code \in CodeChoices : ValidateReferral(p, code)

SpecSignup == InitSignup /\ [][NextSignup]_vars

\* ------------------------------------------------ the chat page MDTChat
\* the signed-in member who has the chat page of MDT params.id open, and
\* another member who posts from a page of their own
Viewer == "L1"
Peer == "E2"
PageMDT == 1

\* the ids of the rows of a response body, in its order (row id = createdAt)
Ids(rows) == [k \in DOMAIN rows |-> rows[k].createdAt]

\* what a member types into the page, " x " or 2001 characters:
\* !newMessage.trim() returns early
Typed == {c \in ContentChoices : ~IsEmpty(c) /\ Length(Trim(c)) # MaxMessageLength}

\* setMessages(data) of the polling effect
SetMessagesIfEmpty(prev, data) == IF prev = <<>> THEN data ELSE prev
SetMessages(prev, data) == data

\* setInterval(..., 3000): the timer fires and issues fetch(GET messages)
PollTick(k) ==
  /\ polls[k].st = "idle"
  /\ polls' = [polls EXCEPT ![k].st = "sent"]
  /\ UNCHANGED <<db, mdtData, message, posted, listed, messages, sendingMessage,
                 accounts, req, last, okAccepts, nreq>>

\* the GET handler answers the fetch: the member test passes, then findMany
PollServe(k) ==
  /\ polls[k].st = "sent"
  /\ PageMDT \in mDT /\ IsMember(PageMDT, Viewer)
  /\ polls' = [polls EXCEPT ![k] = [st |-> "served",
                                    data |-> Ids(FindMessages(message, PageMDT))]]
  /\ UNCHANGED <<db, mdtData, message, posted, listed, messages, sendingMessage,
                 accounts, req, last, okAccepts, nreq>>

\* the response arrives: if (response.ok) setMessages(await response.json())
PollDeliver(k) ==
  /\ polls[k].st = "served"
  /\ messages' = SetMessages(messages, polls[k].data)
  /\ polls' = [polls EXCEPT ![k] = PollIdle]
  /\ UNCHANGED <<db, mdtData, message, posted, listed, sendingMessage,
                 accounts, req, last, okAccepts, nreq>>

\* handleSendMessage up to its fetch: the guard, then setSendingMessage(true)
\* and POST with content: newMessage.trim()
SendStart(c) ==
  /\ sendingMessage.st = "idle"
  /\ Len(message) < MaxMsg
  /\ sendingMessage' = [st |-> "sent", content |-> Trim(c), id |-> 0]
  /\ UNCHANGED <<db, mdtData, message, posted, listed, messages, polls,
                 accounts, req, last, okAccepts, nreq>>

\* message.create of the POST handler, for user u with content c
Store(u, c) ==
  /\ message' = Append(message, [mdtId |-> PageMDT, userId |-> u, content |-> Trim(c),
                                 createdAt |-> Len(message) + 1])
  /\ posted' = Append(posted, [mdtId |-> PageMDT, userId |-> u, content |-> Trim(c)])

\* the POST handler answers the page's send: 400 for content over the limit,
\* else the member test passes and the created row is the body of the 201
SendServe ==
  /\ sendingMessage.st = "sent"
  /\ PageMDT \in mDT /\ IsMember(PageMDT, Viewer)
  /\ IF IsEmpty(sendingMessage.content) \/ TooLong(sendingMessage.content)
     THEN /\ sendingMessage' = [sendingMessage EXCEPT !.st = "failed"]
          /\ UNCHANGED <<message, posted>>
     ELSE /\ Len(message) < MaxMsg
          /\ Store(Viewer, sendingMessage.content)
          /\ sendingMessage' = [sendingMessage EXCEPT !.st = "ok", !.id = Len(message) + 1]
  /\ UNCHANGED <<db, mdtData, listed, messages, polls, accounts, req, last, okAccepts, nreq>>

\* the response arrives: if (!response.ok) throw, else
\* setMessages(prev => [...prev, newMsg]); finally setSendingMessage(false)
SendDeliver ==
  /\ sendingMessage.st \in {"ok", "failed"}
  /\ messages' = IF sendingMessage.st = "ok" THEN Append(messages, sendingMessage.id)
                 ELSE messages
  /\ sendingMessage' = SendIdle
  /\ UNCHANGED <<db, mdtData, message, posted, listed, polls,
                 accounts, req, last, okAccepts, nreq>>

\* another member's page posts: the POST handler stores the row
PeerPost(c) ==
  /\ PageMDT \in mDT /\ IsMember(PageMDT, Peer)
  /\ ~TooLong(c)
  /\ Len(message) + (IF sendingMessage.st = "sent" THEN 1 ELSE 0) < MaxMsg
  /\ Store(Peer, c)
  /\ UNCHANGED <<db, mdtData, listed, page, accounts, req, last, okAccepts, nreq>>

\* the page is open on an MDT the viewer belongs to: fetchMDTAndMessages has
\* set mdt, and its fetch of the messages is the first of the polls
NextPage ==
  \/ \E k \in PollIds : PollTick(k)
  \/ \E k \in PollIds : PollServe(k)
  \/ \E k \in PollIds : PollDeliver(k)
  \/ \E c \in Typed : SendStart(c)
  \/ SendServe
  \/ SendDeliver
  \/ \E c \in Typed : PeerPost(c)

\* the timer keeps firing, the server answers every request, and every
\* response is delivered
PageFairness ==
  /\ WF_vars(\E k \in PollIds : PollTick(k))
  /\ \A k \in PollIds : WF_vars(PollServe(k)) /\ WF_vars(PollDeliver(k))
  /\ WF_vars(SendServe)
  /\ WF_vars(SendDeliver)

SpecPage == InitChat /\ [][NextPage]_vars /\ PageFairness

\* ------------------------------- direct invites to another user's MDT
\* a LOCAL user other than the ones whose requests are modelled
OtherLocal == "L2"

\* the store after OtherLocal has created MDT 1 with required specialty 1
\* (E1 and E2 hold PENDING invitations): L1 is LOCAL and not a member
InitInvite ==
  /\ mDT = {1}
  /\ creatorId = [m \in MDTIds |-> IF m = 1 THEN OtherLocal ELSE NoUser]
  /\ members = [m \in MDTIds |-> IF m = 1 THEN {OtherLocal} ELSE {}]
  /\ mDTSpecialty = {[mdtId |-> 1, specialtyId |-> 1, filled |-> FALSE]}
  /\ mDTInvitation = NewInvitations(ExternalDoctors({1}), 1, OtherLocal, {1})
  /\ mdtName = [m \in MDTIds |-> IF m = 1 THEN NewName ELSE Undefined]
  /\ patientProfile = {NewProfile(1)}
  /\ req = [p \in Procs |-> Idle]
  /\ last = [op |-> "createMDT", user |-> OtherLocal, mdt |-> 1, resp |-> "ok",
             content |-> NoContent]
  /\ okAccepts = {}
  /\ nreq = 0
  /\ message = <<>>
  /\ posted = <<>>
  /\ listed = <<>>
  /\ user = Directory
  /\ reg = [p \in Procs |-> RegIdle]
  /\ PageClosed

\* the direct invite, next to the route by which its receiver accepts it
NextInvite ==
  \/ \E p \in Procs, u \in UserIds, m \in MDTIds \cup {NoMDT}, rcv \in Emails :
        InviteCheck(p, u, m, rcv)
  \/ \E p \in Procs : InviteCreate(p)
  \/ \E p \in Procs, u \in UserIds, i \in InvIds \cup {NoInv}, s \in Statuses :
        PatchUpdate(p, u, i, s)
  \/ \E p \in Procs : PatchConnect(p)

SpecInvite == InitInvite /\ [][NextInvite]_vars

\* ============================================================ properties
status(i) == mDTInvitation[i].status

\* invitations tied to the slot (m, s)
InvitationsFor(m, s) ==
  {k \in DOMAIN mDTInvitation : mDTInvitation[k].mdtId = m /\ mDTInvitation[k].specialtyId = s}

Filled(m, s) == \E rs \in mDTSpecialty : rs.mdtId = m /\ rs.specialtyId = s /\ rs.filled

\* a step in which user u issues respond(s) for invitation i, on either route
RespondCall(p, u, i, s) == RespondRead(p, u, i, s) \/ PatchUpdate(p, u, i, s)
\* a step in which the handler of slot p returns with response code
Returns(p, code) == req[p] # Idle /\ req'[p] = Idle /\ last'.resp = code
\* a step that answers the request it issues, with response code
Answered(p, code) == req'[p] = Idle /\ last'.resp = code

\* C1: in every reachable state each (MDT, specialty) pair has at most one
\* invitation whose status is ACCEPTED.
C1_AtMostOneAcceptedPerSlot ==
  \A m \in MDTIds, s \in Specs :
    Cardinality({k \in InvitationsFor(m, s) : status(k) = "ACCEPTED"}) <= 1

\* C2: of two respond(ACCEPTED) requests for two invitations of the same
\* (MDT, specialty) slot, issued while both are PENDING, only one is answered
\* with success; the other is answered with a conflict.
C2_OneAcceptWins ==
  \A a, b \in okAccepts :
    (/\ mDTInvitation[a].mdtId = mDTInvitation[b].mdtId
     /\ mDTInvitation[a].specialtyId = mDTInvitation[b].specialtyId
     /\ mDTInvitation[a].specialtyId # NoSpecialty) => a = b

\* C3: ACCEPTED, DECLINED and CANCELLED are terminal: no step changes the
\* status of an invitation that is not PENDING.
C3_TerminalStatuses ==
  [][\A i \in DOMAIN mDTInvitation :
        status(i) # "PENDING" => mDTInvitation'[i].status = status(i)]_vars

\* C4: an invitation that carries a specialty is ACCEPTED only if its
\* receiver is a member of its MDT and the slot's row has filled = true.
C4_AcceptanceAtomic ==
  \A i \in DOMAIN mDTInvitation :
    (mDTInvitation[i].specialtyId # NoSpecialty /\ status(i) = "ACCEPTED")
      => /\ mDTInvitation[i].receiverId \in members[mDTInvitation[i].mdtId]
         /\ Filled(mDTInvitation[i].mdtId, mDTInvitation[i].specialtyId)

\* C5: a respond call (ACCEPTED or DECLINED) by the receiver, made while the
\* invitation is not PENDING, is answered with the "already responded"
\* conflict and changes nothing in the store.
C5_RespondNonPendingConflicts ==
  [][\A p \in Procs, u \in UserIds, i \in DOMAIN mDTInvitation, s \in {"ACCEPTED", "DECLINED"} :
       (/\ RespondCall(p, u, i, s)
        /\ mDTInvitation[i].receiverId = u
        /\ status(i) # "PENDING")
       => (Answered(p, "alreadyResponded") /\ UNCHANGED db)]_vars

\* C6: a respond call by a user who is not the invitation's receiver changes
\* nothing and is answered with a permission error (existing invitation) or
\* a not-found error (missing invitation).
C6_RespondByNonReceiverRejected ==
  [][\A p \in Procs, u \in UserIds, i \in InvTargets, s \in {"ACCEPTED", "DECLINED"} :
       (/\ RespondCall(p, u, i, s)
        /\ Exists(i) => mDTInvitation[i].receiverId # u)
       => (/\ Answered(p, IF Exists(i) THEN "forbidden" ELSE "notFound")
           /\ UNCHANGED db)]_vars

\* C7: a successful respond(DECLINED) takes that one invitation from PENDING
\* to DECLINED and changes nothing else: members, filled flags and every
\* other invitation stay as they are.
C7_DeclineChangesOnlyOwnStatus ==
  [][\A p \in Procs :
       (Returns(p, "ok") /\ req[p].op = "respond" /\ req[p].status = "DECLINED")
       => (/\ status(req[p].inv) = "PENDING"
           /\ mDTInvitation' = SetStatus(mDTInvitation, req[p].inv, "DECLINED")
           /\ UNCHANGED <<mDT, creatorId, members, mDTSpecialty>>)]_vars

\* C8: a cancel succeeds only for the sender and only if the invitation is
\* PENDING when its status is written; any other cancel is answered with a
\* permission error (not the sender) or a conflict (not PENDING) and changes
\* nothing; no cancel turns an ACCEPTED invitation into CANCELLED.
C8_CancelOnlyPendingBySender ==
  [][/\ \A p \in Procs :
          (Returns(p, "ok") /\ req[p].op = "cancel")
          => (/\ mDTInvitation[req[p].inv].senderId = req[p].user
              /\ status(req[p].inv) = "PENDING"
              /\ mDTInvitation' = SetStatus(mDTInvitation, req[p].inv, "CANCELLED"))
     /\ \A p \in Procs, u \in UserIds, i \in DOMAIN mDTInvitation :
          /\ (CancelRead(p, u, i) /\ mDTInvitation[i].senderId # u)
               => (Answered(p, "forbidden") /\ UNCHANGED db)
          /\ (CancelRead(p, u, i) /\ mDTInvitation[i].senderId = u /\ status(i) # "PENDING")
               => (Answered(p, "notPending") /\ UNCHANGED db)]_vars

\* C9: in every reachable state there is at most one PENDING invitation per
\* (MDT, receiver) pair.
C9_OnePendingPerReceiver ==
  \A m \in MDTIds, u \in UserIds : Cardinality(ExistingInvitation(m, u)) <= 1

\* a step that issues a request: it leaves the request in flight in slot p,
\* or (AnsweredAtOnce) its first store call already decides the response
Issues == nreq' = nreq + 1
InFlight(p) == req[p] = Idle /\ req'[p] # Idle
AnsweredAtOnce == Issues /\ \A p \in Procs : ~InFlight(p)

\* C10: a create-MDT or direct-invite request by a user whose role is not
\* LOCAL is answered with a permission error and creates no MDT, membership,
\* MDTSpecialty row or invitation.
C10_RoleGate ==
  [][Issues =>
       /\ \A p \in Procs :
            (InFlight(p) /\ req'[p].op \in {"createMDT", "invite"})
              => userType[req'[p].user] = "LOCAL"
       /\ (/\ AnsweredAtOnce
           /\ last'.op \in {"createMDT", "invite"}
           /\ userType[last'.user] # "LOCAL")
            => (last'.resp = "forbidden" /\ UNCHANGED db)]_vars

\* an MDT exists and an EXTERNAL user's invite request was refused at the role gate
C10_Witness ==
  /\ mDT # {}
  /\ last.op = "invite" /\ userType[last.user] = "EXTERNAL" /\ last.resp = "forbidden"

\* ------------------------------------------------------- MDT creation
\* the required specialties of MDT m, read from its MDTSpecialty rows
Required(rows, m) == {rs.specialtyId : rs \in {x \in rows : x.mdtId = m}}
\* the invitations of MDT m addressed to user u
SentTo(invs, m, u) ==
  {k \in DOMAIN invs : invs[k].mdtId = m /\ invs[k].receiverId = u}

\* C11: a step that creates MDT m with required set R leaves the creator
\* among m's members, exactly one invitation for every EXTERNAL user whose
\* specialties intersect R and none for any other user; each of these
\* invitations is PENDING, sent by the creator, and carries a specialty
\* that is both in R and among the receiver's specialties.
C11_CreateInvitesEachMatch ==
  [][\A m \in mDT' \ mDT :
       LET R == Required(mDTSpecialty', m)
       IN /\ last'.op = "createMDT" /\ last'.resp = "ok" /\ last'.mdt = m
          /\ creatorId'[m] = last'.user
          /\ creatorId'[m] \in members'[m]
          /\ \A k \in DOMAIN mDTInvitation' :
                mDTInvitation'[k].mdtId = m => mDTInvitation'[k].receiverId \in UserIds
          /\ \A u \in UserIds :
                LET sent == SentTo(mDTInvitation', m, u)
                    own  == SeqToSet(specialties[u])
                IN /\ Cardinality(sent) =
                        IF userType[u] = "EXTERNAL" /\ own \cap R # {} THEN 1 ELSE 0
                   /\ \A k \in sent :
                        /\ mDTInvitation'[k].status = "PENDING"
                        /\ mDTInvitation'[k].senderId = creatorId'[m]
                        /\ mDTInvitation'[k].specialtyId \in R \cap own]_vars

\* the latest response is the success of a create with required specialties
\* {1, 2, 3}: E1 holds an invitation for specialty 1, E2 one for specialty 2
C11_Witness ==
  /\ last.op = "createMDT" /\ last.resp = "ok"
  /\ Required(mDTSpecialty, last.mdt) = {1, 2, 3}
  /\ \E k, j \in DOMAIN mDTInvitation :
        /\ mDTInvitation[k] = [mdtId |-> last.mdt, senderId |-> last.user, receiverId |-> "E1",
                               specialtyId |-> 1, status |-> "PENDING"]
        /\ mDTInvitation[j] = [mdtId |-> last.mdt, senderId |-> last.user, receiverId |-> "E2",
                               specialtyId |-> 2, status |-> "PENDING"]

\* MDT m is whole: its creator and only registered users are members, it has
\* a name and one patient profile, and every EXTERNAL user matching one of
\* its required specialties has been sent an invitation
Whole(m) ==
  /\ creatorId[m] \in members[m]
  /\ members[m] \subseteq UserIds
  /\ mdtName[m] # Undefined
  /\ Cardinality({pp \in patientProfile : pp.mdtId = m}) = 1
  /\ \A u \in ExternalDoctors(Required(mDTSpecialty, m)) : SentTo(mDTInvitation, m, u) # {}
\* no row refers to an MDT that does not exist
NoLeftovers ==
  /\ \A m \in MDTIds \ mDT : creatorId[m] = NoUser /\ members[m] = {} /\ mdtName[m] = Undefined
  /\ \A rs \in mDTSpecialty : rs.mdtId \in mDT
  /\ \A pp \in patientProfile : pp.mdtId \in mDT
  /\ \A k \in DOMAIN mDTInvitation : mDTInvitation[k].mdtId \in mDT

\* C12: MDT creation is all-or-nothing: a create request that is not
\* answered with success leaves no MDT, membership, patient profile,
\* MDTSpecialty row or invitation behind, and in every reachable state
\* every MDT that exists is whole.
C12_CreateAllOrNothing ==
  /\ [](NoLeftovers /\ \A m \in mDT : Whole(m))
  /\ [][(AnsweredAtOnce /\ last'.op = "createMDT" /\ last'.resp # "ok")
          => UNCHANGED <<db, mdtData>>]_vars

\* an MDT exists, and a later create by a LOCAL user was answered 500 and
\* left no second MDT behind
C12_Witness ==
  /\ last.op = "createMDT" /\ last.resp = "internal" /\ userType[last.user] = "LOCAL"
  /\ mDT = {1}
  /\ NoLeftovers

\* ------------------------------------------------ reading an MDT by id
\* C13: a user who is not a member of MDT m gets, for GET m, the response
\* the same request gets in the store without m: every GET by id of a
\* non-member is answered not-found, whether the MDT exists or not.
C13_NonMemberSeesNotFound ==
  /\ [](\A m \in mDT : \A u \in UserIds \ members[m] :
          GetMDTResponse(mDT, members, m, u) = GetMDTResponse(mDT \ {m}, members, m, u))
  /\ [][(/\ AnsweredAtOnce /\ last'.op = "getMDT"
         /\ (last'.mdt \in mDT => last'.user \notin members[last'.mdt]))
        => (last'.resp = "notFound" /\ UNCHANGED <<db, mdtData>>)]_vars

\* a user outside an existing MDT asked for it and was answered not-found
C13_Witness ==
  /\ last.op = "getMDT" /\ last.resp = "notFound"
  /\ last.mdt \in mDT /\ last.user \notin members[last.mdt]

\* ------------------------------------------------------ editing an MDT
Medications(profiles) == {[mdtId |-> pp.mdtId, medications |-> pp.medications] : pp \in profiles}

\* C14: an update request is carried out only for the MDT's creator: for any
\* other requester (other members included) it is answered not-found and
\* changes nothing; the write of an update changes at most the name and the
\* profile's scalar fields of its own MDT, and leaves members, medications,
\* MDTSpecialty rows, invitations and messages as they are.
C14_UpdateByCreatorOnly ==
  [][/\ \A p \in Procs :
          (InFlight(p) /\ req'[p].op = "updateMDT")
            => (req'[p].mdt \in mDT /\ creatorId[req'[p].mdt] = req'[p].user)
     /\ (AnsweredAtOnce /\ last'.op = "updateMDT")
          => (last'.resp = "notFound" /\ UNCHANGED <<db, mdtData, chat>>)
     /\ \A p \in Procs :
          (Returns(p, "ok") /\ req[p].op = "updateMDT")
            => /\ creatorId[req[p].mdt] = req[p].user
               /\ UNCHANGED <<db, chat>>
               /\ Medications(patientProfile') = Medications(patientProfile)
               /\ \A m \in MDTIds \ {req[p].mdt} : mdtName'[m] = mdtName[m]
               /\ \A pp \in patientProfile :
                    pp.mdtId # req[p].mdt => pp \in patientProfile']_vars

\* the creator's update went through on an MDT that has another member,
\* with its medications as they were created
C14_Witness ==
  /\ last.op = "updateMDT" /\ last.resp = "ok"
  /\ mdtName[last.mdt] = "B"
  /\ members[last.mdt] # {last.user}
  /\ \E pp \in patientProfile :
        pp.mdtId = last.mdt /\ pp.caseSummary = "s1" /\ pp.medications = NewProfile(last.mdt).medications

\* ------------------------------------------ reading an invitation by id
\* C15: GET of an invitation by id is answered with success only when the
\* requester is a member of the invitation's MDT, its sender or its
\* receiver.
C15_InvitationVisibleToParties ==
  [][\A p \in Procs, u \in UserIds, i \in DOMAIN mDTInvitation :
       (/\ last'.op = "getInvitation" /\ last'.resp = "ok"
        /\ GetInvitation(p, u, i))
       => \/ u \in members[mDTInvitation[i].mdtId]
          \/ u = mDTInvitation[i].senderId
          \/ u = mDTInvitation[i].receiverId]_vars

\* ------------------------------------------------------------ messages
\* C16: a post by a member of an existing MDT stores a message exactly when
\* its content is a string whose trimmed length is between 1 and 2000:
\* then the handler goes on to insert one row holding the trimmed content;
\* otherwise (trimmed length 0, or 2001 and more) the post is answered with
\* a validation error and adds no message.
C16_PostLengthBounds ==
  [][/\ \A p \in Procs :
          (InFlight(p) /\ req'[p].op = "postMessage")
          => /\ req'[p].content.str
             /\ Length(Trim(req'[p].content)) \in 1..MaxMessageLength
     /\ (/\ AnsweredAtOnce /\ last'.op = "postMessage"
         /\ last'.mdt \in mDT /\ last'.user \in members[last'.mdt])
          => /\ last'.resp = "invalid"
             /\ ~(last'.content.str /\ Length(Trim(last'.content)) \in 1..MaxMessageLength)
     /\ \A p \in Procs :
          (Returns(p, "ok") /\ req[p].op = "postMessage")
          => /\ Len(message') = Len(message) + 1
             /\ message'[Len(message')].content = Trim(req[p].content)
             /\ Length(message'[Len(message')].content) \in 1..MaxMessageLength
     /\ (last'.op = "postMessage" /\ last'.resp # "ok") => message' = message]_vars

\* a message of 2000 characters is stored, and a member's later post of
\* 2001 characters was refused as invalid
C16_Witness ==
  /\ \E k \in DOMAIN message : Length(message[k].content) = MaxMessageLength
  /\ last.op = "postMessage" /\ last.resp = "invalid"
  /\ last.mdt \in mDT /\ last.user \in members[last.mdt]
  /\ Length(Trim(last.content)) = MaxMessageLength + 1

MessageOps == {"postMessage", "listMessages"}

\* C17: only members read and write the message log of an MDT: a post or a
\* list by a user who is not a member is answered with a failure, adds no
\* message and returns no list; the author of every stored message is a
\* member of the message's MDT, from the step that stores it on.
C17_MembersOnlyChat ==
  /\ [](\A k \in DOMAIN message : message[k].userId \in members[message[k].mdtId])
  /\ [][/\ \A p \in Procs :
             (InFlight(p) /\ req'[p].op \in MessageOps)
               => (req'[p].mdt \in mDT /\ req'[p].user \in members[req'[p].mdt])
        /\ (AnsweredAtOnce /\ last'.op \in MessageOps)
             => (last'.resp \in {"invalid", "notFound", "forbidden"} /\ UNCHANGED chat)
        /\ \A p \in Procs :
             (Returns(p, "ok") /\ req[p].op \in MessageOps)
               => req[p].user \in members[req[p].mdt]]_vars

\* a message is stored, and the latest request, a post or a list by a user
\* outside that MDT, was refused
C17_Witness ==
  /\ message # <<>>
  /\ last.op \in MessageOps /\ last.resp = "forbidden"
  /\ last.mdt = message[1].mdtId /\ last.user \notin members[last.mdt]

\* what a reader sees of a message row
Shown(rows) == [k \in DOMAIN rows |-> [mdtId |-> rows[k].mdtId, userId |-> rows[k].userId,
                                      content |-> rows[k].content]]
SelectMDT(rows, m) == SelectSeq(rows, LAMBDA x : x.mdtId = m)
IsPrefix(a, b) == Len(a) <= Len(b) /\ SubSeq(b, 1, Len(a)) = a

RegReturns(p) == reg[p] # RegIdle /\ reg'[p] = RegIdle
\* the referral code names a registered EXTERNAL user
HeldByExternal(code) ==
  \E k \in DOMAIN user : user[k].referralCode = code /\ user[k].userType = "EXTERNAL"

\* C19: a LOCAL registration whose referral code is unknown, or is not the
\* code of an EXTERNAL user, is answered with a failure and creates no user;
\* in every reachable state every LOCAL user has a referredBy user, and
\* that user's role is EXTERNAL.
C19_LocalReferredByExternal ==
  /\ [](\A k \in DOMAIN user :
          user[k].userType = "LOCAL"
            => (user[k].referredById \in DOMAIN user
                /\ user[user[k].referredById].userType = "EXTERNAL"))
  /\ [][\A p \in Procs :
          /\ (/\ reg[p].pc = "referrer" /\ reg'[p] # reg[p]
              /\ ~HeldByExternal(reg[p].referralCode))
               => (RegReturns(p) /\ last'.resp = "invalidReferral" /\ user' = user)
          /\ (reg[p].userType = "LOCAL" /\ RegReturns(p) /\ last'.resp = "ok")
               => /\ HeldByExternal(reg[p].referralCode)
                  /\ user'[Len(user')].referredById = FindByReferralCode(reg[p].referralCode)]_vars

\* a LOCAL user is registered under an EXTERNAL user's code, and the latest
\* LOCAL registration, with an unknown code, was refused
C19_Witness ==
  /\ \E k \in DOMAIN user : user[k].userType = "LOCAL" /\ user[k].referredById # NoRow
  /\ last.op = "signup" /\ last.resp = "invalidReferral"

\* C20: a registration that is valid but for its email, which is registered
\* when the handler answers, is answered with the 'already registered'
\* conflict and creates no user, also when it lost a race against a
\* concurrent registration of the same email; no two users share an email.
C20_DuplicateEmailConflicts ==
  /\ [](\A j, k \in DOMAIN user : user[j].email = user[k].email => j = k)
  /\ [][\A p \in Procs :
          (/\ RegReturns(p)
           /\ FindByEmail(reg[p].email) # NoRow
           /\ reg[p].userType = "LOCAL" => HeldByExternal(reg[p].referralCode))
            => (last'.resp = "emailTaken" /\ user' = user)]_vars

\* C21: in every reachable state the referral codes of distinct users
\* differ, every EXTERNAL user holds one and no LOCAL user does, also when
\* concurrent EXTERNAL registrations generate and check the same code; no
\* step changes the code (or any other column) of a registered user.
C21_ReferralCodesUnique ==
  /\ [](\A j, k \in DOMAIN user :
          /\ (user[j].userType = "EXTERNAL") = (user[j].referralCode \in Codes)
          /\ (user[j].userType = "LOCAL") = (user[j].referralCode = NoCode)
          /\ (user[j].referralCode # NoCode /\ user[j].referralCode = user[k].referralCode)
               => j = k)
  /\ [][IsPrefix(user, user')]_vars

\* an EXTERNAL user holds a code, and the latest registration, of an email
\* that is still free, ended with the rejection of its insert: it had
\* generated and checked the same code while that code was free
C21_Witness ==
  /\ \E j \in DOMAIN user : user[j].userType = "EXTERNAL" /\ user[j].referralCode \in Codes
  /\ last.op = "signup" /\ last.resp = "internal"
  /\ FindByEmail(last.user) = NoRow

\* ------------------------------------------------------ specialty slots
\* the slots (MDT, specialty) that have an MDTSpecialty row
Slots(rows) == {<<rs.mdtId, rs.specialtyId>> : rs \in rows}
FilledIn(rows, m, s) == \E rs \in rows : rs.mdtId = m /\ rs.specialtyId = s /\ rs.filled
\* this step runs the transaction of an accept, which writes filled = true
WritesFilled(p) ==
  Returns(p, "ok") /\ req[p].op = "respond" /\ req[p].status = "ACCEPTED"
\* this step is the accept of an invitation for slot (m, s)
AcceptsFor(m, s) ==
  \E p \in Procs :
    /\ WritesFilled(p)
    /\ mDTInvitation[req[p].inv].mdtId = m /\ mDTInvitation[req[p].inv].specialtyId = s
    /\ mDTInvitation'[req[p].inv].status = "ACCEPTED"

\* filled starts false, goes only from false to true, and only in a step
\* that accepts an invitation for its slot
FilledMonotonic ==
  /\ \A sl \in Slots(mDTSpecialty') \ Slots(mDTSpecialty) :
        ~FilledIn(mDTSpecialty', sl[1], sl[2])
  /\ \A sl \in Slots(mDTSpecialty) :
        /\ sl \in Slots(mDTSpecialty')
        /\ FilledIn(mDTSpecialty, sl[1], sl[2]) => FilledIn(mDTSpecialty', sl[1], sl[2])
        /\ (~FilledIn(mDTSpecialty, sl[1], sl[2]) /\ FilledIn(mDTSpecialty', sl[1], sl[2]))
             => AcceptsFor(sl[1], sl[2])

\* C22: filled starts false at creation, changes only from false to true,
\* only in a step that accepts an invitation for its (MDT, specialty), and
\* is written true at most once: the write finds it false.
C22_FilledWrittenOnce ==
  [][/\ FilledMonotonic
     /\ \A p \in Procs :
          WritesFilled(p)
            => ~Filled(mDTInvitation[req[p].inv].mdtId, mDTInvitation[req[p].inv].specialtyId)]_vars

\* C23: in every reachable state a slot (MDT, specialty) has filled = true
\* if and only if exactly one invitation for that slot is ACCEPTED.
C23_FilledIffOneAccepted ==
  \A rs \in mDTSpecialty :
    rs.filled <=>
      Cardinality({k \in InvitationsFor(rs.mdtId, rs.specialtyId) : status(k) = "ACCEPTED"}) = 1

\* C24: in every reachable state a slot with filled = true has no PENDING
\* invitation.
C24_FilledHasNoPending ==
  \A rs \in mDTSpecialty :
    rs.filled =>
      \A k \in InvitationsFor(rs.mdtId, rs.specialtyId) : status(k) # "PENDING"

\* C25: in every reachable state every EXTERNAL member of an MDT has an
\* ACCEPTED invitation for that MDT addressed to them.
C25_NoOrphanedMembership ==
  \A m \in mDT : \A u \in members[m] \cap UserIds :
    userType[u] = "EXTERNAL"
      => \E k \in SentTo(mDTInvitation, m, u) : status(k) = "ACCEPTED"

\* ------------------------------------------------------- the chat page
\* the server's list for the page's MDT, as ids
ServerIds == Ids(FindMessages(message, PageMDT))

\* C26: with the poll timer firing and every response delivered, every
\* message stored by a successful post is eventually in the page's displayed
\* list, and once posting has stopped the displayed list eventually equals
\* the server's list, in the same order, and stays so
C26_PollingConverges ==
  /\ \A i \in 1..MaxMsg : (i \in SeqToSet(ServerIds)) ~> (i \in SeqToSet(messages))
  /\ <>[](messages = ServerIds)

\* the page shows the viewer's and the peer's messages, in the server's order
C26_Witness ==
  /\ Len(message) = MaxMsg
  /\ messages = ServerIds
  /\ \E i, j \in DOMAIN message : message[i].userId = Viewer /\ message[j].userId = Peer

\* C27: the page's displayed list never holds the same message id twice
C27_NoDuplicateIds ==
  \A i, j \in DOMAIN messages : messages[i] = messages[j] => i = j

\* ------------------------------------------------------- fillable slots
\* the users holding specialty s
Holders(s) == {u \in UserIds : userType[u] = "EXTERNAL" /\ s \in SeqToSet(specialties[u])}

\* C28: a step that creates MDT m leaves, for every required specialty of m
\* that some EXTERNAL user holds, at least one PENDING invitation of m tied
\* to that specialty
C28_SlotsStayFillable ==
  [][\A m \in mDT' \ mDT : \A s \in Required(mDTSpecialty', m) :
        Holders(s) # {} =>
          \E k \in DOMAIN mDTInvitation' :
             /\ mDTInvitation'[k].mdtId = m
             /\ mDTInvitation'[k].specialtyId = s
             /\ mDTInvitation'[k].status = "PENDING"]_vars

\* ------------------------------------------------------- direct invites
\* invitation i was created by a direct invite: it carries no specialty
Direct(i) == mDTInvitation[i].specialtyId = NoSpecialty

\* C29: a respond(ACCEPTED) by id, issued by the receiver of a PENDING
\* direct invitation, is not refused but goes on to the transaction, and the
\* transaction's step answers with success, leaves the invitation ACCEPTED
\* and the receiver a member of the MDT
C29_DirectInviteAcceptable ==
  [][/\ \A p \in Procs, u \in UserIds, i \in DOMAIN mDTInvitation :
          (/\ Direct(i)
           /\ mDTInvitation[i].receiverId = u
           /\ status(i) = "PENDING"
           /\ RespondRead(p, u, i, "ACCEPTED"))
          => req'[p].pc = "tx"
     /\ \A p \in Procs :
          (WritesFilled(p) /\ Direct(req[p].inv))
          => /\ mDTInvitation'[req[p].inv].status = "ACCEPTED"
             /\ req[p].user \in members'[mDTInvitation[req[p].inv].mdtId]]_vars

\* C30: a step that stores a direct invitation stores it for an existing
\* MDT of which its sender is a member, and a step in which a user becomes
\* a member of an MDT finds an invitation of that MDT addressed to the user
\* whose sender already is a member
C30_InviteByMembersOnly ==
  [][/\ \A k \in DOMAIN mDTInvitation' \ DOMAIN mDTInvitation :
          mDTInvitation'[k].specialtyId = NoSpecialty
          => /\ mDTInvitation'[k].mdtId \in mDT
             /\ mDTInvitation'[k].senderId \in members[mDTInvitation'[k].mdtId]
     /\ \A m \in mDT : \A u \in members'[m] \ members[m] :
          \E k \in SentTo(mDTInvitation, m, u) : mDTInvitation[k].senderId \in members[m]]_vars
====
